---- MODULE Spec2Model ----
(***************************************************************************)
(* Model of libsoundtouch/device.py: the XML field-extraction helpers, the *)
(* decoders (Config, Network, Status, ContentItem, Volume, Preset,         *)
(* ZoneStatus, ZoneSlave) and the SoundTouchDevice facade.                 *)
(*                                                                         *)
(* Python values are tagged records: None, Str(s), IntV(n), Raise(e) (an   *)
(* exception propagating out of the expression).  A DOM node is a record   *)
(* [k, tag, attrs, text, kids]: attrs is the sequence of <<name, value>>   *)
(* pairs in document order, text is the value of a leading text node (or   *)
(* None when the first child is not a text node), kids the child elements  *)
(* in document order.                                                      *)
(*                                                                         *)
(* The variables config..presets are the fields of one facade; op, args,   *)
(* reqs, resp, outcome and ret record the last call (or the last step of a *)
(* call): its name, arguments, HTTP exchanges, the document its GET was    *)
(* answered with, "ok" or the exception it raised, and the value it        *)
(* returned.  callers holds, for each of two parallel callers, the method  *)
(* it is executing and its position in it.                                 *)
(***************************************************************************)
EXTENDS Integers, Sequences, FiniteSets, TLC

VARIABLES config, status, volume, zone_status, presets, op, args, reqs, resp, outcome,
          ret, callers

vars ==
    <<config, status, volume, zone_status, presets, op, args, reqs, resp, outcome,
      ret, callers>>

slots == <<status, volume, zone_status, presets>>

(* ---------------- bounds of the model ---------------- *)

MaxSlaves == 1

MaxMembers == 2

MaxPresets == 2

MaxLevel == 101

MaxNetworks == 3

(* ---------------- program constants ---------------- *)

KEY_PLAY == "PLAY"

KEY_MUTE == "MUTE"

KEY_PAUSE == "PAUSE"

KEY_PLAY_PAUSE == "PLAY_PAUSE"

KEY_NEXT_TRACK == "NEXT_TRACK"

KEY_PREVIOUS_TRACK == "PREV_TRACK"

KEY_POWER == "POWER"

KEY_VOLUME_UP == "VOLUME_UP"

KEY_VOLUME_DOWN == "VOLUME_DOWN"

KEY_SHUFFLE_ON == "SHUFFLE_ON"

KEY_SHUFFLE_OFF == "SHUFFLE_OFF"

KEY_REPEAT_ONE == "REPEAT_ONE"

KEY_REPEAT_ALL == "REPEAT_ALL"

KEY_REPEAT_OFF == "REPEAT_OFF"

STATE_STANDBY == "STANDBY"

(* ---------------- Python values ---------------- *)

None == [k |-> "None"]

Str(s) == [k |-> "str", s |-> s]

IntV(n) == [k |-> "int", n |-> n]

Raise(e) == [k |-> "raise", e |-> e]

IsRaise(v) == v.k = "raise"

\* the first exception among the values of a sequence of evaluated
\* expressions (Python evaluates them in order and stops at the first raise)
RECURSIVE FirstRaise(_)
FirstRaise(vs) ==
    IF vs = <<>> THEN None
    ELSE IF IsRaise(Head(vs)) THEN Head(vs) ELSE FirstRaise(Tail(vs))

\* str.strip() on the text values the documents of the model carry
strip(s) ==
    CASE s = " 7 " -> "7"
      [] s = " true " -> "true"
      [] OTHER -> s

\* int(x): TypeError on None, ValueError on a non-numeric string (an exception
\* raised while evaluating the argument propagates)
int(x) ==
    IF IsRaise(x) THEN x
    ELSE IF x = None THEN Raise("TypeError")
    ELSE CASE x.s = "0" -> IntV(0)
           [] x.s = "7" -> IntV(7)
           [] x.s = " 7 " -> IntV(7)
           [] x.s = "12" -> IntV(12)
           [] x.s = "42" -> IntV(42)
           [] x.s = "240" -> IntV(240)
           [] OTHER -> Raise("ValueError")

\* '%s' % v
PyFormat(v) == IF v = None THEN "None" ELSE v.s

(* ---------------- DOM ---------------- *)

El(tag, attrs, text, kids) ==
    [k |-> "node", tag |-> tag, attrs |-> attrs, text |-> text, kids |-> kids]

\* minidom.parseString(text): the Document node above the root element
Doc(root) == El("#document", <<>>, None, <<root>>)

\* all descendants of a sequence of sibling nodes, in document order
RECURSIVE Descendants(_)
Descendants(nodes) ==
    IF nodes = <<>> THEN <<>>
    ELSE <<Head(nodes)>> \o Descendants(Head(nodes).kids) \o Descendants(Tail(nodes))

HasAttr(node, attribute) == \E i \in 1..Len(node.attrs) : node.attrs[i][1] = attribute

AttrValue(node, attribute) ==
    LET i == CHOOSE j \in 1..Len(node.attrs) : node.attrs[j][1] = attribute
    IN  Str(node.attrs[i][2])

\* element.firstChild: a text node, an element node, or None
firstChild(node) ==
    IF node.text # None THEN [k |-> "textnode", nodeValue |-> node.text]
    ELSE IF node.kids # <<>> THEN [k |-> "elemnode", nodeValue |-> None]
    ELSE None

\* Node.toxml(): the serialisation as a sequence of tokens
RECURSIVE toxml(_)
RECURSIVE toxmlAll(_)
RECURSIVE toxmlAttrs(_)
toxmlAttrs(attrs) ==
    IF attrs = <<>> THEN <<>>
    ELSE <<" ", Head(attrs)[1], "=\"", Head(attrs)[2], "\"">> \o toxmlAttrs(Tail(attrs))

toxmlAll(nodes) ==
    IF nodes = <<>> THEN <<>> ELSE toxml(Head(nodes)) \o toxmlAll(Tail(nodes))

toxml(node) ==
    IF node.text = None /\ node.kids = <<>>
    THEN <<"<", node.tag>> \o toxmlAttrs(node.attrs) \o <<"/>">>
    ELSE <<"<", node.tag>> \o toxmlAttrs(node.attrs) \o <<">">>
         \o (IF node.text = None THEN <<>> ELSE <<node.text.s>>)
         \o toxmlAll(node.kids) \o <<"</", node.tag, ">">>

(* ---------------- XML field extraction ---------------- *)

_get_dom_attribute(xml_dom, attribute, default_value) ==
    IF xml_dom = None THEN Raise("AttributeError")
    ELSE IF HasAttr(xml_dom, attribute) THEN AttrValue(xml_dom, attribute)
    ELSE default_value

\* defined on nodes; on None the callers raise AttributeError
_get_dom_elements(xml_dom, element) ==
    SelectSeq(Descendants(xml_dom.kids), LAMBDA e : e.tag = element)

\* elements[0] if len(elements) > 0 else None
FirstOrNone(elements) == IF Len(elements) > 0 THEN elements[1] ELSE None

_get_dom_element(xml_dom, element) ==
    IF xml_dom = None THEN Raise("AttributeError")
    ELSE FirstOrNone(_get_dom_elements(xml_dom, element))

\* the body of _get_dom_element_attribute once the element is looked up
AttributeOrDefault(el, attribute, default_value) ==
    IF IsRaise(el) THEN el
    ELSE IF el # None
    THEN IF HasAttr(el, attribute) THEN AttrValue(el, attribute) ELSE None
    ELSE default_value

_get_dom_element_attribute(xml_dom, element, attribute, default_value) ==
    AttributeOrDefault(_get_dom_element(xml_dom, element), attribute, default_value)

\* firstChild.nodeValue.strip(): a first child that is an element has the
\* nodeValue None, which has no strip
StrippedValue(child) ==
    IF child.nodeValue = None THEN Raise("AttributeError")
    ELSE Str(strip(child.nodeValue.s))

\* the body of _get_dom_element_value once the element is looked up
ValueOrDefault(el, default_value) ==
    IF IsRaise(el) THEN el
    ELSE IF el # None /\ firstChild(el) # None THEN StrippedValue(firstChild(el))
    ELSE default_value

_get_dom_element_value(xml_dom, element, default_value) ==
    ValueOrDefault(_get_dom_element(xml_dom, element), default_value)

(* ---------------- decoders ---------------- *)

ZoneSlave(member_dom) ==
    [k |-> "ZoneSlave",
     device_ip |-> _get_dom_attribute(member_dom, "ipaddress", None),
     role |-> _get_dom_attribute(member_dom, "role", None)]

RECURSIVE ZoneSlaves(_)
ZoneSlaves(members) ==
    IF members = <<>> THEN <<>>
    ELSE <<ZoneSlave(Head(members))>> \o ZoneSlaves(Tail(members))

ZoneStatus(zone_dom) ==
    LET master_id == _get_dom_element_attribute(zone_dom, "zone", "master", None)
        master_ip == _get_dom_element_attribute(zone_dom, "zone", "senderIPAddress", None)
    IN  [k |-> "ZoneStatus",
         master_id |-> master_id,
         master_ip |-> master_ip,
         is_master |-> (master_ip = None),
         slaves |-> ZoneSlaves(_get_dom_elements(zone_dom, "member"))]

ContentItem(xml_dom) ==
    LET name == _get_dom_element_value(xml_dom, "itemName", None)
        source == _get_dom_attribute(xml_dom, "source", None)
        type == _get_dom_attribute(xml_dom, "type", None)
        location == _get_dom_attribute(xml_dom, "location", None)
        source_account == _get_dom_attribute(xml_dom, "sourceAccount", None)
        presetable == _get_dom_attribute(xml_dom, "isPresetable", None)
        exc == FirstRaise(<<name, source, type, location, source_account, presetable>>)
    IN  IF exc # None THEN exc
        ELSE [k |-> "ContentItem", name |-> name, source |-> source, type |-> type,
              location |-> location, source_account |-> source_account,
              is_presetable |-> (presetable = Str("true"))]

\* int(value) if value is not None else None
IntOrNone(value) ==
    IF IsRaise(value) THEN value ELSE IF value # None THEN int(value) ELSE None

\* the art element's text if image_status == "IMAGE_PRESENT" else None
ImageIfPresent(image_status, xml_dom) ==
    IF image_status = Str("IMAGE_PRESENT")
    THEN _get_dom_element_value(xml_dom, "art", None)
    ELSE None

Status(xml_dom) ==
    LET source == _get_dom_element_attribute(xml_dom, "nowPlaying", "source", None)
        content_item == ContentItem(_get_dom_element(xml_dom, "ContentItem"))
        track == _get_dom_element_value(xml_dom, "track", None)
        artist == _get_dom_element_value(xml_dom, "artist", None)
        album == _get_dom_element_value(xml_dom, "album", None)
        image_status == _get_dom_element_attribute(xml_dom, "art", "artImageStatus", None)
        image == ImageIfPresent(image_status, xml_dom)
        duration_int ==
            IntOrNone(_get_dom_element_attribute(xml_dom, "time", "total", None))
        position_int == IntOrNone(_get_dom_element_value(xml_dom, "time", None))
        play_status == _get_dom_element_value(xml_dom, "playStatus", None)
        shuffle_setting == _get_dom_element_value(xml_dom, "shuffleSetting", None)
        repeat_setting == _get_dom_element_value(xml_dom, "repeatSetting", None)
        stream_type == _get_dom_element_value(xml_dom, "streamType", None)
        track_id == _get_dom_element_value(xml_dom, "trackID", None)
        station_name == _get_dom_element_value(xml_dom, "stationName", None)
        description == _get_dom_element_value(xml_dom, "description", None)
        station_location == _get_dom_element_value(xml_dom, "stationLocation", None)
        exc == FirstRaise(<<source, content_item, track, artist, album, image_status,
                            image, duration_int, position_int, play_status,
                            shuffle_setting, repeat_setting, stream_type, track_id,
                            station_name, description, station_location>>)
    IN  IF exc # None THEN exc
        ELSE [k |-> "Status", source |-> source, content_item |-> content_item,
              track |-> track, artist |-> artist, album |-> album, image |-> image,
              duration |-> duration_int, position |-> position_int,
              play_status |-> play_status, shuffle_setting |-> shuffle_setting,
              repeat_setting |-> repeat_setting, stream_type |-> stream_type,
              track_id |-> track_id, station_name |-> station_name,
              description |-> description, station_location |-> station_location]

Volume(xml_dom) ==
    LET actual == int(_get_dom_element_value(xml_dom, "actualvolume", None))
        target == int(_get_dom_element_value(xml_dom, "targetvolume", None))
        muteenabled == _get_dom_element_value(xml_dom, "muteenabled", None)
        exc == FirstRaise(<<actual, target, muteenabled>>)
    IN  IF exc # None THEN exc
        ELSE [k |-> "Volume", actual |-> actual, target |-> target,
              muted |-> (muteenabled = Str("true"))]

\* _get_dom_element(preset_dom, "ContentItem").toxml(): None has no toxml
SourceXml(content_item) ==
    IF content_item = None THEN Raise("AttributeError")
    ELSE [k |-> "xml", tokens |-> toxml(content_item)]

Preset(preset_dom) ==
    LET name == _get_dom_element_value(preset_dom, "itemName", None)
        id == _get_dom_attribute(preset_dom, "id", None)
        source == _get_dom_element_attribute(preset_dom, "ContentItem", "source", None)
        type == _get_dom_element_attribute(preset_dom, "ContentItem", "type", None)
        location == _get_dom_element_attribute(preset_dom, "ContentItem", "location", None)
        source_account ==
            _get_dom_element_attribute(preset_dom, "ContentItem", "sourceAccount", None)
        presetable ==
            _get_dom_element_attribute(preset_dom, "ContentItem", "isPresetable", None)
        source_xml == SourceXml(_get_dom_element(preset_dom, "ContentItem"))
        exc == FirstRaise(<<name, id, source, type, location, source_account,
                            presetable, source_xml>>)
    IN  IF exc # None THEN exc
        ELSE [k |-> "Preset", name |-> name, preset_id |-> id, source |-> source,
              type |-> type, location |-> location, source_account |-> source_account,
              is_presetable |-> (presetable = Str("true")), source_xml |-> source_xml]

Network(network_dom) ==
    LET type == IF HasAttr(network_dom, "type") THEN AttrValue(network_dom, "type")
                ELSE Raise("KeyError")
        mac_address == _get_dom_element_value(network_dom, "macAddress", None)
        ip_address == _get_dom_element_value(network_dom, "ipAddress", None)
        exc == FirstRaise(<<type, mac_address, ip_address>>)
    IN  IF exc # None THEN exc
        ELSE [k |-> "Network", type |-> type, mac_address |-> mac_address,
              ip_address |-> ip_address]

Component(component_dom) ==
    LET category == _get_dom_element_value(component_dom, "componentCategory", None)
        software_version == _get_dom_element_value(component_dom, "softwareVersion", None)
        serial_number == _get_dom_element_value(component_dom, "serialNumber", None)
        exc == FirstRaise(<<category, software_version, serial_number>>)
    IN  IF exc # None THEN exc
        ELSE [k |-> "Component", category |-> category,
              software_version |-> software_version, serial_number |-> serial_number]

\* an append loop over decoded elements stops at the first decoder that
\* raises: the decoded prefix before it, and that exception (or None)
RaiseIndexes(ds) == {i \in 1..Len(ds) : IsRaise(ds[i])}

StopAt(ds, n) == [done |-> SubSeq(ds, 1, n - 1), exc |-> ds[n]]

StopAtRaise(ds) ==
    IF RaiseIndexes(ds) = {} THEN [done |-> ds, exc |-> None]
    ELSE StopAt(ds, CHOOSE i \in RaiseIndexes(ds) : \A j \in RaiseIndexes(ds) : i <= j)

\* for network in ...: self._networks.append(Network(network))
DecodeNetworks(doms) == StopAtRaise([i \in 1..Len(doms) |-> Network(doms[i])])

\* for component in ...: self._components.append(Component(component))
DecodeComponents(doms) == StopAtRaise([i \in 1..Len(doms) |-> Component(doms[i])])

\* for preset in ...: self._presets.append(Preset(preset))
DecodePresets(doms) == StopAtRaise([i \in 1..Len(doms) |-> Preset(doms[i])])

RECURSIVE ComponentDoms(_)
ComponentDoms(groups) ==
    IF groups = <<>> THEN <<>>
    ELSE _get_dom_elements(Head(groups), "component") \o ComponentDoms(Tail(groups))

Config(xml_dom) ==
    LET id == _get_dom_element_attribute(xml_dom, "info", "deviceID", None)
        name == _get_dom_element_value(xml_dom, "name", None)
        type == _get_dom_element_value(xml_dom, "type", None)
        account_uuid == _get_dom_element_value(xml_dom, "margeAccountUUID", None)
        module_type == _get_dom_element_value(xml_dom, "moduleType", None)
        variant == _get_dom_element_value(xml_dom, "variant", None)
        variant_mode == _get_dom_element_value(xml_dom, "variantMode", None)
        country_code == _get_dom_element_value(xml_dom, "countryCode", None)
        region_code == _get_dom_element_value(xml_dom, "regionCode", None)
        networks == DecodeNetworks(_get_dom_elements(xml_dom, "networkInfo"))
        components ==
            DecodeComponents(ComponentDoms(_get_dom_elements(xml_dom, "components")))
        exc == FirstRaise(<<id, name, type, account_uuid, module_type, variant,
                            variant_mode, country_code, region_code,
                            networks.exc, components.exc>>)
    IN  IF exc # None THEN exc
        ELSE [k |-> "Config", device_id |-> id, name |-> name, type |-> type,
              account_uuid |-> account_uuid, module_type |-> module_type,
              variant |-> variant, variant_mode |-> variant_mode,
              country_code |-> country_code, region_code |-> region_code,
              networks |-> networks.done, components |-> components.done]

\* a variant that takes the first network whatever its type
PreferredNetwork_first(cfg) ==
    IF cfg.networks # <<>> THEN cfg.networks[1] ELSE None

\* next((n for n in networks if n.type == "SMSC"), next((n for n in networks), None))
PreferredNetwork(cfg) ==
    LET smsc == SelectSeq(cfg.networks, LAMBDA n : n.type = Str("SMSC"))
    IN  IF smsc # <<>> THEN smsc[1]
        ELSE IF cfg.networks # <<>> THEN cfg.networks[1] ELSE None

device_ip(cfg) ==
    LET network == PreferredNetwork(cfg)
    IN  IF network # None THEN network.ip_address ELSE None

mac_address(cfg) ==
    LET network == PreferredNetwork(cfg)
    IN  IF network # None THEN network.mac_address ELSE None


(* ---------------- documents the device may answer with ---------------- *)

\* the leaf element <tag>text</tag>
Leaf(tag, text) == El(tag, <<>>, Str(text), <<>>)

\* the elements of a sequence of optional elements that are present
RECURSIVE Present(_)
Present(parts) ==
    IF parts = <<>> THEN <<>>
    ELSE (IF Head(parts) = None THEN <<>> ELSE <<Head(parts)>>) \o Present(Tail(parts))

\* the first n elements of a sequence
Prefix(seq, n) == SubSeq(seq, 1, n)

\* all sequences over S of length at most n
SeqsUpTo(S, n) == UNION {[1..m -> S] : m \in 0..n}

ContentItemEl ==
    El("ContentItem",
       <<<<"source", "SPOTIFY">>, <<"type", "uri">>, <<"isPresetable", "true">>>>,
       None, <<Leaf("itemName", "Mix")>>)

\* GET /now_playing
NowPlayingDoc(attrs, parts) == Doc(El("nowPlaying", attrs, None, Present(parts)))

TimeEl == El("time", <<<<"total", "240">>>>, Str("12"), <<>>)

ArtEl == El("art", <<<<"artImageStatus", "IMAGE_PRESENT">>>>, Str("http://img"), <<>>)

StatusDocs ==
    { NowPlayingDoc(<<<<"source", "STANDBY">>>>, <<El("ContentItem", <<>>, None, <<>>)>>),
      NowPlayingDoc(<<<<"source", "SPOTIFY">>>>, <<ContentItemEl, TimeEl, ArtEl>>),
      NowPlayingDoc(<<<<"source", "SPOTIFY">>>>,
                    <<ContentItemEl, El("time", <<>>, None, <<>>),
                      El("art", <<<<"artImageStatus", "SHOW_DEFAULT_IMAGE">>>>,
                         Str("http://img"), <<>>)>>),
      NowPlayingDoc(<<<<"source", "STANDBY">>>>, <<>>) }

\* GET /volume
VolumeDoc(target, actual, mute) ==
    Doc(El("volume", <<>>, None,
           Present(<<IF target = None THEN None ELSE Leaf("targetvolume", target.s),
                     IF actual = None THEN None ELSE Leaf("actualvolume", actual.s),
                     IF mute = None THEN None ELSE Leaf("muteenabled", mute.s)>>)))

VolumeDocs ==
    { VolumeDoc(Str("42"), Str("42"), Str("false")),
      VolumeDoc(Str(" 7 "), Str("0"), Str(" true ")),
      VolumeDoc(Str("42"), None, Str("false")),
      VolumeDoc(None, Str("42"), Str("true")) }

\* GET /presets
PresetEl(id, content) == El("preset", <<<<"id", id>>>>, None, Present(<<content>>))

PresetEls == { PresetEl("1", ContentItemEl), PresetEl("2", None) }

PresetsDocs == { Doc(El("presets", <<>>, None, ps)) : ps \in SeqsUpTo(PresetEls, MaxPresets) }

\* GET /getZone
MemberEls ==
    [i \in 1..MaxMembers |->
        IF i = 1
        THEN El("member", <<<<"ipaddress", "10.0.0.2">>, <<"role", "LEFT">>>>,
                Str("SLAVE"), <<>>)
        ELSE El("member", <<<<"ipaddress", "10.0.0.3">>>>, Str("SLAVE2"), <<>>)]

ZoneDocs ==
    { Doc(El("zone", <<>>, None, <<>>)),
      Doc(El("zone", <<<<"master", "OTHER">>, <<"senderIPAddress", "10.0.0.9">>>>, None,
             Prefix(MemberEls, 1))) }
    \cup { Doc(El("zone", <<<<"master", "MASTER">>>>, None, Prefix(MemberEls, n))) :
             n \in 1..MaxMembers }

\* GET /info
NetworkEl(type, ip) ==
    El("networkInfo", IF type = None THEN <<>> ELSE <<<<"type", type.s>>>>, None,
       <<Leaf("macAddress", "AA:BB"), Leaf("ipAddress", ip)>>)

InfoDoc(id, networks) ==
    Doc(El("info", <<<<"deviceID", id>>>>, None,
           <<Leaf("name", "Room"), Leaf("type", "SoundTouch 10")>> \o networks))

InfoDocs ==
    { InfoDoc("MASTER", <<NetworkEl(Str("SCM"), "10.0.0.1"),
                          NetworkEl(Str("SMSC"), "10.0.0.5")>>),
      InfoDoc("MASTER", <<NetworkEl(None, "10.0.0.1")>>) }

\* a networkInfo element with its own addresses; one of the choices has no
\* macAddress and no ipAddress child
NetworkInfoEl(type, mac, ip) ==
    El("networkInfo", <<<<"type", type>>>>, None,
       Present(<<IF mac = None THEN None ELSE Leaf("macAddress", mac.s),
                 IF ip = None THEN None ELSE Leaf("ipAddress", ip.s)>>))

NetworkInfoEls ==
    { NetworkInfoEl(type, a[1], a[2]) :
        type \in {"SCM", "SMSC"},
        a \in { <<Str("AA:01"), Str("10.0.0.1")>>,
                <<Str("AA:02"), Str("10.0.0.2")>>,
                <<None, None>> } }

\* /info documents with every sequence of up to MaxNetworks such elements
NetworkInfoDocs == {InfoDoc("MASTER", ns) : ns \in SeqsUpTo(NetworkInfoEls, MaxNetworks)}

\* the other devices a zone operation may be given as slaves
SlaveDevices ==
    { [config |-> Config(InfoDoc("SLAVE", <<NetworkEl(Str("SCM"), "10.0.0.2")>>))],
      [config |-> Config(InfoDoc("SLAVE2", <<>>))] }

SlaveLists == SeqsUpTo(SlaveDevices, MaxSlaves)

Levels == {-1, 42, MaxLevel}


\* dom = minidom.parseString(response.text) followed by the decoder: the
\* pairs <<document, decoded>> for each document the device may answer with
StatusTable == {<<d, Status(d)>> : d \in StatusDocs}

VolumeTable == {<<d, Volume(d)>> : d \in VolumeDocs}

PresetsTable == {<<d, DecodePresets(_get_dom_elements(d, "preset"))>> : d \in PresetsDocs}

ConfigTable == {<<d, Config(d)>> : d \in InfoDocs \cup NetworkInfoDocs}

\* for getZone, the number of member elements and the decoded snapshot
ZoneTable ==
    {<<d, [members |-> Len(_get_dom_elements(d, "member")), zone_status |-> ZoneStatus(d)]>> :
        d \in ZoneDocs}

Lookup(table, d) == (CHOOSE p \in table : p[1] = d)[2]

StatusOf(d) == Lookup(StatusTable, d)

VolumeOf(d) == Lookup(VolumeTable, d)

PresetsOf(d) == Lookup(PresetsTable, d)

ConfigOf(d) == Lookup(ConfigTable, d)

ZoneOf(d) == Lookup(ZoneTable, d)

(* ---------------- HTTP exchanges ---------------- *)

Get(path) == [method |-> "GET", path |-> path]

Post(path, body) == [method |-> "POST", path |-> path, body |-> body]

(***************************************************************************)
(* A call is evaluated on a record "self" holding the fields of the facade *)
(* together with the exchanges the call has issued so far (reqs), the      *)
(* document the last GET was answered with (resp) and the exception        *)
(* propagating out of the call (exc, None while it runs normally).  Every  *)
(* exchange is answered: the device is reachable.                          *)
(***************************************************************************)

Self ==
    [config |-> config, status |-> status, volume |-> volume,
     zone_status |-> zone_status, presets |-> presets,
     reqs |-> <<>>, resp |-> None, exc |-> None]

\* requests.post(url, body)
HttpPost(self, path, body) == [self EXCEPT !.reqs = Append(@, Post(path, body))]

\* requests.get(url), answered with doc
HttpGet(self, path, doc) == [self EXCEPT !.reqs = Append(@, Get(path)), !.resp = doc]

\* the assignment "self._slot = Decoder(dom)": the decoder's exception
\* propagates and leaves the slot as it was
Assign(r, slot, decoded) ==
    IF IsRaise(decoded) THEN [r EXCEPT !.exc = decoded] ELSE [r EXCEPT ![slot] = decoded]

__init_config(self, doc) == Assign(HttpGet(self, "/info", doc), "config", ConfigOf(doc))

\* the slots are assigned after __init_config; a construction that raises
\* leaves no facade (config stays None)
__init__(doc) ==
    __init_config([config |-> None, status |-> None, volume |-> None,
                   zone_status |-> None, presets |-> <<>>,
                   reqs |-> <<>>, resp |-> None, exc |-> None], doc)

refresh_status(self, doc) ==
    Assign(HttpGet(self, "/now_playing", doc), "status", StatusOf(doc))

\* a variant that also empties the preset list, as refresh_presets does
refresh_volume_resets_presets(self, doc) ==
    Assign([HttpGet(self, "/volume", doc) EXCEPT !.presets = <<>>], "volume", VolumeOf(doc))

refresh_volume(self, doc) ==
    Assign(HttpGet(self, "/volume", doc), "volume", VolumeOf(doc))

\* self._presets = [] and then one append per decoded preset
AppendPresets(r, ps) == [r EXCEPT !.presets = ps.done, !.exc = ps.exc]

refresh_presets(self, doc) == AppendPresets(HttpGet(self, "/presets", doc), PresetsOf(doc))

\* a variant that assigns the snapshot whatever the number of members
AssignZone_always(r, z) == [r EXCEPT !.zone_status = z.zone_status]

\* if len(member elements) != 0: self._zone_status = ZoneStatus(dom)
AssignZone(r, z) == IF z.members # 0 THEN [r EXCEPT !.zone_status = z.zone_status] ELSE r

\* a variant that clears the slot when the response has no member (the
\* assignment the source has commented out)
refresh_zone_status_clearing(self, doc) ==
    AssignZone([HttpGet(self, "/getZone", doc) EXCEPT !.zone_status = None], ZoneOf(doc))

refresh_zone_status(self, doc) == AssignZone(HttpGet(self, "/getZone", doc), ZoneOf(doc))

select_preset(self, preset) == HttpPost(self, "/select", preset.source_xml)

RECURSIVE MemberBodies(_)
MemberBodies(slaves) ==
    IF slaves = <<>> THEN <<>>
    ELSE <<[ipaddress |-> PyFormat(device_ip(Head(slaves).config)),
            id |-> PyFormat(Head(slaves).config.device_id)]>>
         \o MemberBodies(Tail(slaves))

\* the body '<zone master="%s" senderIPAddress="%s">' members '</zone>'
_create_zone(self, slaves) ==
    IF Len(slaves) <= 0 THEN Raise("NoSlavesException")
    ELSE [k |-> "zone", master |-> PyFormat(self.config.device_id),
          senderIPAddress |-> PyFormat(device_ip(self.config)),
          members |-> MemberBodies(slaves)]

\* a variant without the check of the slave list
_get_zone_request_body_unchecked(self, slaves) ==
    [k |-> "zone", master |-> PyFormat(self.config.device_id),
     members |-> MemberBodies(slaves)]

\* the body '<zone master="%s">' members '</zone>'
_get_zone_request_body(self, slaves) ==
    IF Len(slaves) <= 0 THEN Raise("NoSlavesException")
    ELSE [k |-> "zone", master |-> PyFormat(self.config.device_id),
          members |-> MemberBodies(slaves)]

\* requests.post(url, request_body) unless building the body raised
PostBody(r, path, request_body) ==
    IF IsRaise(request_body) THEN [r EXCEPT !.exc = request_body]
    ELSE HttpPost(r, path, request_body)

create_zone(self, slaves) == PostBody(self, "/setZone", _create_zone(self, slaves))

\* after refresh_zone_status: if self.zone_status is None: raise; else build
\* the body and post it
PostIfZone(r, path, slaves) ==
    IF r.zone_status = None THEN [r EXCEPT !.exc = Raise("NoExistingZoneException")]
    ELSE PostBody(r, path, _get_zone_request_body(r, slaves))

add_zone_slave(self, slaves, doc) ==
    PostIfZone(refresh_zone_status(self, doc), "/addZoneSlave", slaves)

remove_zone_slave(self, slaves, doc) ==
    PostIfZone(refresh_zone_status(self, doc), "/removeZoneSlave", slaves)

\* the bodies '<key state="press|release" sender="Gabbo">%s</key>'
KeyBody(state, key) == [k |-> "key", state |-> state, sender |-> "Gabbo", key |-> key]

\* a variant that posts the release before the press
_send_key_release_first(self, key) ==
    HttpPost(HttpPost(self, "/key", KeyBody("release", key)), "/key", KeyBody("press", key))

_send_key(self, key) ==
    HttpPost(HttpPost(self, "/key", KeyBody("press", key)), "/key", KeyBody("release", key))

\* a variant that clamps the level to the range of the device
set_volume_clamped(self, level, doc) ==
    refresh_volume(HttpPost(self, "/volume",
                            [k |-> "volume",
                             level |-> IF level < 0 THEN 0
                                       ELSE IF level > 100 THEN 100 ELSE level]), doc)

\* the body '<volume>%s</volume>' % level
set_volume(self, level, doc) ==
    refresh_volume(HttpPost(self, "/volume", [k |-> "volume", level |-> level]), doc)

mute(self, doc) == refresh_volume(_send_key(self, KEY_MUTE), doc)

volume_up(self, doc) == refresh_volume(_send_key(self, KEY_VOLUME_UP), doc)

volume_down(self, doc) == refresh_volume(_send_key(self, KEY_VOLUME_DOWN), doc)

next_track(self) == _send_key(self, KEY_NEXT_TRACK)

previous_track(self) == _send_key(self, KEY_PREVIOUS_TRACK)

pause(self, doc) == refresh_status(_send_key(self, KEY_PAUSE), doc)

play(self, doc) == refresh_status(_send_key(self, KEY_PLAY), doc)

play_pause(self, doc) == refresh_status(_send_key(self, KEY_PLAY_PAUSE), doc)

repeat_off(self, doc) == refresh_status(_send_key(self, KEY_REPEAT_OFF), doc)

repeat_one(self, doc) == refresh_status(_send_key(self, KEY_REPEAT_ONE), doc)

repeat_all(self, doc) == refresh_status(_send_key(self, KEY_REPEAT_ALL), doc)

shuffle(self, on, doc) ==
    refresh_status(IF on THEN _send_key(self, KEY_SHUFFLE_ON)
                   ELSE _send_key(self, KEY_SHUFFLE_OFF), doc)

\* after refresh_status: the POWER key if the condition on the source holds
KeyIf(r, cond, key) == IF r.exc = None /\ cond THEN _send_key(r, key) ELSE r

IsStandby(r) == r.exc = None /\ r.status.source = Str(STATE_STANDBY)

IsNotStandby(r) == r.exc = None /\ r.status.source # Str(STATE_STANDBY)

\* a variant that sends the key whatever the refreshed source is
power_on_unconditional(self, doc) ==
    KeyIf(refresh_status(self, doc), TRUE, KEY_POWER)

power_on(self, doc) ==
    KeyIf(refresh_status(self, doc), IsStandby(refresh_status(self, doc)), KEY_POWER)

\* a variant that refreshes the status again after the key, as the
\* transport-control methods do
power_off_refresh_after(self, doc) ==
    IF IsNotStandby(refresh_status(self, doc))
    THEN refresh_status(_send_key(refresh_status(self, doc), KEY_POWER), doc)
    ELSE refresh_status(self, doc)

power_off(self, doc) ==
    KeyIf(refresh_status(self, doc), IsNotStandby(refresh_status(self, doc)), KEY_POWER)

(* ---------------- the facade as a state machine ---------------- *)

NoArgs == [none |-> TRUE]

\* the parallel callers of one facade, and a caller that is in no method
Callers == {"A", "B"}

Idle == [op |-> "idle", pc |-> "idle", dom |-> None]

\* the state a call leaves behind: the fields of the facade, and the record of
\* the call (its name, arguments, exchanges, GET response and outcome)
Commit(name, a, result) ==
    \E r \in {result} :
        /\ op' = name
        /\ args' = a
        /\ config' = r.config
        /\ status' = r.status
        /\ volume' = r.volume
        /\ zone_status' = r.zone_status
        /\ presets' = r.presets
        /\ reqs' = r.reqs
        /\ resp' = r.resp
        /\ outcome' = IF r.exc = None THEN "ok" ELSE r.exc.e
        /\ ret' = None
        /\ UNCHANGED callers

\* SoundTouchDevice(host, port): a construction that raises leaves no facade
Init ==
    \E doc \in InfoDocs :
        \E r \in {__init__(doc)} :
            /\ op = "__init__"
            /\ args = NoArgs
            /\ config = r.config
            /\ status = r.status
            /\ volume = r.volume
            /\ zone_status = r.zone_status
            /\ presets = r.presets
            /\ reqs = r.reqs
            /\ resp = r.resp
            /\ outcome = IF r.exc = None THEN "ok" ELSE r.exc.e
            /\ ret = None
            /\ callers = [c \in Callers |-> Idle]

Constructed == config # None

Call_refresh_status ==
    /\ Constructed
    /\ \E doc \in StatusDocs :
        Commit("refresh_status", NoArgs, refresh_status(Self, doc))

Call_refresh_volume ==
    /\ Constructed
    /\ \E doc \in VolumeDocs :
        Commit("refresh_volume", NoArgs, refresh_volume(Self, doc))

Call_refresh_presets ==
    /\ Constructed
    /\ \E doc \in PresetsDocs :
        Commit("refresh_presets", NoArgs, refresh_presets(Self, doc))

Call_refresh_zone_status ==
    /\ Constructed
    /\ \E doc \in ZoneDocs :
        Commit("refresh_zone_status", NoArgs, refresh_zone_status(Self, doc))

Call_select_preset ==
    /\ Constructed
    /\ \E i \in 1..Len(presets) :
        Commit("select_preset", [preset |-> presets[i]],
               select_preset(Self, presets[i]))

Call_create_zone ==
    /\ Constructed
    /\ \E slaves \in SlaveLists :
        Commit("create_zone", [slaves |-> slaves], create_zone(Self, slaves))

Call_add_zone_slave ==
    /\ Constructed
    /\ \E slaves \in SlaveLists, doc \in ZoneDocs :
        Commit("add_zone_slave", [slaves |-> slaves],
               add_zone_slave(Self, slaves, doc))

Call_remove_zone_slave ==
    /\ Constructed
    /\ \E slaves \in SlaveLists, doc \in ZoneDocs :
        Commit("remove_zone_slave", [slaves |-> slaves],
               remove_zone_slave(Self, slaves, doc))

Call_set_volume ==
    /\ Constructed
    /\ \E level \in Levels, doc \in VolumeDocs :
        Commit("set_volume", [level |-> level], set_volume(Self, level, doc))

Call_next_track ==
    /\ Constructed
    /\ Commit("next_track", NoArgs, next_track(Self))

Call_previous_track ==
    /\ Constructed
    /\ Commit("previous_track", NoArgs, previous_track(Self))

Call_shuffle ==
    /\ Constructed
    /\ \E on \in BOOLEAN, doc \in StatusDocs :
        Commit("shuffle", [shuffle |-> on], shuffle(Self, on, doc))

Call_mute ==
    /\ Constructed
    /\ \E doc \in VolumeDocs :
        Commit("mute", NoArgs, mute(Self, doc))

Call_volume_up ==
    /\ Constructed
    /\ \E doc \in VolumeDocs :
        Commit("volume_up", NoArgs, volume_up(Self, doc))

Call_volume_down ==
    /\ Constructed
    /\ \E doc \in VolumeDocs :
        Commit("volume_down", NoArgs, volume_down(Self, doc))

Call_pause ==
    /\ Constructed
    /\ \E doc \in StatusDocs :
        Commit("pause", NoArgs, pause(Self, doc))

Call_play ==
    /\ Constructed
    /\ \E doc \in StatusDocs :
        Commit("play", NoArgs, play(Self, doc))

Call_play_pause ==
    /\ Constructed
    /\ \E doc \in StatusDocs :
        Commit("play_pause", NoArgs, play_pause(Self, doc))

Call_repeat_off ==
    /\ Constructed
    /\ \E doc \in StatusDocs :
        Commit("repeat_off", NoArgs, repeat_off(Self, doc))

Call_repeat_one ==
    /\ Constructed
    /\ \E doc \in StatusDocs :
        Commit("repeat_one", NoArgs, repeat_one(Self, doc))

Call_repeat_all ==
    /\ Constructed
    /\ \E doc \in StatusDocs :
        Commit("repeat_all", NoArgs, repeat_all(Self, doc))

Call_power_on ==
    /\ Constructed
    /\ \E doc \in StatusDocs :
        Commit("power_on", NoArgs, power_on(Self, doc))

Call_power_off ==
    /\ Constructed
    /\ \E doc \in StatusDocs :
        Commit("power_off", NoArgs, power_off(Self, doc))

Next ==
    \/ Call_refresh_status
    \/ Call_refresh_volume
    \/ Call_refresh_presets
    \/ Call_refresh_zone_status
    \/ Call_select_preset
    \/ Call_create_zone
    \/ Call_add_zone_slave
    \/ Call_remove_zone_slave
    \/ Call_set_volume
    \/ Call_mute
    \/ Call_volume_up
    \/ Call_volume_down
    \/ Call_next_track
    \/ Call_previous_track
    \/ Call_pause
    \/ Call_play
    \/ Call_play_pause
    \/ Call_repeat_off
    \/ Call_repeat_one
    \/ Call_repeat_all
    \/ Call_shuffle
    \/ Call_power_on
    \/ Call_power_off

Spec == Init /\ [][Next]_vars

(* ---------------- the address properties of Config ---------------- *)

\* SoundTouchDevice(host, port) on a device with any of the network lists
InitConfig ==
    \E doc \in NetworkInfoDocs :
        \E r \in {__init__(doc)} :
            /\ op = "__init__"
            /\ args = NoArgs
            /\ config = r.config
            /\ status = r.status
            /\ volume = r.volume
            /\ zone_status = r.zone_status
            /\ presets = r.presets
            /\ reqs = r.reqs
            /\ resp = r.resp
            /\ outcome = IF r.exc = None THEN "ok" ELSE r.exc.e
            /\ ret = None
            /\ callers = [c \in Callers |-> Idle]

\* reading a property of device.config: no exchange, no field changes
ReadProperty(name, value) ==
    /\ op' = name
    /\ args' = NoArgs
    /\ reqs' = <<>>
    /\ resp' = None
    /\ outcome' = "ok"
    /\ ret' = value
    /\ UNCHANGED <<config, slots, callers>>

Get_device_ip == Constructed /\ ReadProperty("device_ip", device_ip(config))

Get_mac_address == Constructed /\ ReadProperty("mac_address", mac_address(config))

NextConfig ==
    \/ Get_device_ip
    \/ Get_mac_address

SpecConfig == InitConfig /\ [][NextConfig]_vars

(* ---------------- two callers in parallel on one facade ---------------- *)

(***************************************************************************)
(* The facade holds no lock, and every requests.get / requests.post blocks *)
(* on the network, where the interpreter switches threads.  A method run   *)
(* by one of two parallel callers is therefore a sequence of steps, one    *)
(* per HTTP exchange and one for the decoding and assignment that follow a *)
(* GET, and the steps of the two callers interleave freely.  pc is the     *)
(* step a caller takes next; dom is its local variable of that name.       *)
(***************************************************************************)

ParKeyOps == {"pause", "mute", "next_track"}

ParRefreshOps == {"refresh_status", "refresh_volume"}

\* the key a method passes to _send_key
ParKey(o) ==
    CASE o = "pause" -> KEY_PAUSE
      [] o = "mute" -> KEY_MUTE
      [] o = "next_track" -> KEY_NEXT_TRACK

\* the slot a method refreshes ("none" for next_track)
ParSlot(o) ==
    CASE o \in {"pause", "refresh_status"} -> "status"
      [] o \in {"mute", "refresh_volume"} -> "volume"
      [] OTHER -> "none"

ParPath(slot) == IF slot = "status" THEN "/now_playing" ELSE "/volume"

ParDocs(slot) == IF slot = "status" THEN StatusDocs ELSE VolumeDocs

ParDecoded(slot, dom) == IF slot = "status" THEN StatusOf(dom) ELSE VolumeOf(dom)

\* the state a step of caller c leaves behind
ParCommit(c, o, next, result) ==
    \E r \in {result} :
        /\ callers' = [callers EXCEPT ![c] = next]
        /\ op' = o
        /\ args' = [caller |-> c]
        /\ config' = r.config
        /\ status' = r.status
        /\ volume' = r.volume
        /\ zone_status' = r.zone_status
        /\ presets' = r.presets
        /\ reqs' = r.reqs
        /\ resp' = r.resp
        /\ outcome' = IF r.exc = None THEN "ok" ELSE r.exc.e
        /\ ret' = None

\* a caller invokes pause, mute, next_track, refresh_status or refresh_volume
Par_call ==
    /\ Constructed
    /\ \E c \in Callers, o \in ParKeyOps \cup ParRefreshOps :
        /\ callers[c].pc = "idle"
        /\ ParCommit(c, o, [op |-> o, pc |-> IF o \in ParKeyOps THEN "press" ELSE "get",
                            dom |-> None], Self)

\* _send_key: the first requests.post
Par_press ==
    \E c \in Callers :
        /\ callers[c].pc = "press"
        /\ ParCommit(c, callers[c].op, [callers[c] EXCEPT !.pc = "release"],
                     HttpPost(Self, "/key", KeyBody("press", ParKey(callers[c].op))))

\* _send_key: the second requests.post; the method then refreshes its slot
\* or, for next_track, returns
Par_release ==
    \E c \in Callers :
        /\ callers[c].pc = "release"
        /\ ParCommit(c, callers[c].op,
                     IF ParSlot(callers[c].op) = "none" THEN Idle
                     ELSE [callers[c] EXCEPT !.pc = "get"],
                     HttpPost(Self, "/key", KeyBody("release", ParKey(callers[c].op))))

\* refresh_status / refresh_volume: requests.get and minidom.parseString
Par_get ==
    \E c \in Callers :
        /\ callers[c].pc = "get"
        /\ \E doc \in ParDocs(ParSlot(callers[c].op)) :
            ParCommit(c, callers[c].op, [callers[c] EXCEPT !.pc = "assign", !.dom = doc],
                      HttpGet(Self, ParPath(ParSlot(callers[c].op)), doc))

\* refresh_status / refresh_volume: self._status = Status(dom) (or Volume);
\* the method returns, or the decoder's exception propagates
Par_assign ==
    \E c \in Callers :
        /\ callers[c].pc = "assign"
        /\ ParCommit(c, callers[c].op, Idle,
                     Assign(Self, ParSlot(callers[c].op),
                            ParDecoded(ParSlot(callers[c].op), callers[c].dom)))

NextPar ==
    \/ Par_call
    \/ Par_press
    \/ Par_release
    \/ Par_get
    \/ Par_assign

SpecPar == Init /\ [][NextPar]_vars

(* ---------------- claims ---------------- *)

ZoneOps == {"create_zone", "add_zone_slave", "remove_zone_slave"}

SlaveOps == {"add_zone_slave", "remove_zone_slave"}

IsPost(req) == req.method = "POST"

NoPost == \A i \in 1..Len(reqs) : ~IsPost(reqs[i])

MemberCount(doc) == Len(_get_dom_elements(doc, "member"))

PowerPress == [method |-> "POST", path |-> "/key",
               body |-> [k |-> "key", state |-> "press", sender |-> "Gabbo", key |-> "POWER"]]

PowerRelease == [method |-> "POST", path |-> "/key",
                 body |-> [k |-> "key", state |-> "release", sender |-> "Gabbo", key |-> "POWER"]]

\* C1 as stated: a zone operation called with an empty slave list fails with
\* NoSlavesException and has issued no HTTP request at all.
C1_EmptySlavesNoRequest ==
    (op \in ZoneOps /\ args.slaves = <<>>) =>
        (outcome = "NoSlavesException" /\ reqs = <<>>)

\* C1 amended: create_zone with an empty slave list fails with
\* NoSlavesException and issues no request; add_zone_slave and
\* remove_zone_slave with an empty slave list issue exactly GET /getZone and
\* then fail, with NoExistingZoneException when the zone slot is undefined and
\* with NoSlavesException otherwise; no POST is issued.
C1_EmptySlaves ==
    /\ (op = "create_zone" /\ args.slaves = <<>>) =>
          (outcome = "NoSlavesException" /\ reqs = <<>>)
    /\ (op \in SlaveOps /\ args.slaves = <<>>) =>
          /\ reqs = <<[method |-> "GET", path |-> "/getZone"]>>
          /\ outcome = IF zone_status = None THEN "NoExistingZoneException"
                       ELSE "NoSlavesException"

C1_Witness ==
    /\ op = "add_zone_slave"
    /\ args.slaves = <<>>
    /\ outcome = "NoSlavesException"
    /\ reqs = <<[method |-> "GET", path |-> "/getZone"]>>

\* C2 as stated: add_zone_slave or remove_zone_slave with a non-empty slave
\* list whose GET /getZone response has no member element fails with
\* NoExistingZoneException and issues no POST, whatever happened before.
C2_NoMemberNoPost ==
    (op \in SlaveOps /\ args.slaves # <<>> /\ MemberCount(resp) = 0) =>
        (outcome = "NoExistingZoneException" /\ NoPost)

\* C3: power_on issues GET /now_playing and stores the decoded status, then
\* sends one POWER press and release if the refreshed source is STANDBY and
\* nothing more otherwise; power_off does so with the condition negated.
C3_Power ==
    (op \in {"power_on", "power_off"}) =>
        /\ Len(reqs) >= 1
        /\ reqs[1] = [method |-> "GET", path |-> "/now_playing"]
        /\ IF IsRaise(Status(resp))
           THEN outcome = Status(resp).e /\ Len(reqs) = 1
           ELSE /\ outcome = "ok"
                /\ status = Status(resp)
                /\ LET standby == (status.source = Str("STANDBY"))
                       sends == IF op = "power_on" THEN standby ELSE ~standby
                   IN  reqs = IF sends
                              THEN <<[method |-> "GET", path |-> "/now_playing"],
                                     PowerPress, PowerRelease>>
                              ELSE <<[method |-> "GET", path |-> "/now_playing"]>>

C3_Witness ==
    /\ op = "power_on"
    /\ outcome = "ok"
    /\ status.source = Str("STANDBY")
    /\ reqs = <<[method |-> "GET", path |-> "/now_playing"], PowerPress, PowerRelease>>

\* C4: set_volume(level) issues POST /volume with the body of that level and
\* then GET /volume, for every level, and on success the volume slot holds the
\* snapshot decoded from that GET.
C4_SetVolume ==
    (op = "set_volume") =>
        /\ reqs = <<[method |-> "POST", path |-> "/volume",
                     body |-> [k |-> "volume", level |-> args.level]],
                    [method |-> "GET", path |-> "/volume"]>>
        /\ (outcome = "ok" => volume = Volume(resp))

C4_Witness ==
    /\ op = "set_volume"
    /\ args.level > 100
    /\ outcome = "ok"
    /\ volume = Volume(resp)
    /\ Len(reqs) = 2

\* C5: refresh_zone_status replaces the zone slot with the decoded snapshot
\* exactly when the GET /getZone response has a member element; otherwise the
\* slot keeps its previous value.
C5_ZoneFrame ==
    [][(op' = "refresh_zone_status") =>
          /\ MemberCount(resp') # 0 => zone_status' = ZoneStatus(resp')
          /\ MemberCount(resp') = 0 => zone_status' = zone_status]_vars

C5_Witness ==
    /\ op = "refresh_zone_status"
    /\ MemberCount(resp) = 0
    /\ zone_status # None
    /\ zone_status.slaves # <<>>


StatusKeyOps ==
    {"play", "pause", "play_pause", "repeat_off", "repeat_one", "repeat_all", "shuffle"}

VolumeKeyOps == {"mute", "volume_up", "volume_down"}

TrackKeyOps == {"next_track", "previous_track"}

\* the key each transport-control method is documented to send
ExpectedKey(o, a) ==
    CASE o = "play" -> "PLAY"
      [] o = "pause" -> "PAUSE"
      [] o = "play_pause" -> "PLAY_PAUSE"
      [] o = "repeat_off" -> "REPEAT_OFF"
      [] o = "repeat_one" -> "REPEAT_ONE"
      [] o = "repeat_all" -> "REPEAT_ALL"
      [] o = "shuffle" -> IF a.shuffle THEN "SHUFFLE_ON" ELSE "SHUFFLE_OFF"
      [] o = "mute" -> "MUTE"
      [] o = "volume_up" -> "VOLUME_UP"
      [] o = "volume_down" -> "VOLUME_DOWN"
      [] o = "next_track" -> "NEXT_TRACK"
      [] o = "previous_track" -> "PREV_TRACK"

KeyPost(state, key) ==
    [method |-> "POST", path |-> "/key",
     body |-> [k |-> "key", state |-> state, sender |-> "Gabbo", key |-> key]]

\* C6: every transport-control method posts the press and then the release of
\* its key and only then refreshes: the status slot for play, pause,
\* play_pause, repeat_* and shuffle, the volume slot for mute, volume_up and
\* volume_down; next_track and previous_track issue no GET and change no slot.
C6_KeyThenRefresh ==
    [][LET key == ExpectedKey(op', args')
       IN  /\ (op' \in StatusKeyOps) =>
                /\ reqs' = <<KeyPost("press", key), KeyPost("release", key),
                             [method |-> "GET", path |-> "/now_playing"]>>
                /\ (outcome' = "ok" => status' = Status(resp'))
                /\ UNCHANGED <<volume, zone_status, presets>>
           /\ (op' \in VolumeKeyOps) =>
                /\ reqs' = <<KeyPost("press", key), KeyPost("release", key),
                             [method |-> "GET", path |-> "/volume"]>>
                /\ (outcome' = "ok" => volume' = Volume(resp'))
                /\ UNCHANGED <<status, zone_status, presets>>
           /\ (op' \in TrackKeyOps) =>
                /\ reqs' = <<KeyPost("press", key), KeyPost("release", key)>>
                /\ UNCHANGED slots]_vars

C6_Witness ==
    /\ op = "shuffle"
    /\ ~args.shuffle
    /\ outcome = "ok"
    /\ reqs = <<KeyPost("press", "SHUFFLE_OFF"), KeyPost("release", "SHUFFLE_OFF"),
                [method |-> "GET", path |-> "/now_playing"]>>
    /\ status = Status(resp)

\* C7 as stated: every public operation issues exactly one or two HTTP
\* exchanges per successful call.
C7_OneOrTwoExchanges == (outcome = "ok") => Len(reqs) \in {1, 2}

\* C7 amended: every public operation issues between one and three HTTP
\* exchanges per successful call; the transport-control methods that refresh a
\* slot always issue three (two key POSTs and a GET), and only they and a
\* power_on or power_off that sends the POWER key do.
C7_OneToThreeExchanges ==
    (outcome = "ok") =>
        /\ Len(reqs) \in 1..3
        /\ (op \in StatusKeyOps \cup VolumeKeyOps) => Len(reqs) = 3
        /\ (Len(reqs) = 3) =>
              op \in StatusKeyOps \cup VolumeKeyOps \cup {"power_on", "power_off"}

C7_Witness ==
    /\ op = "pause"
    /\ outcome = "ok"
    /\ Len(reqs) = 3

\* C8: after construction the status, volume and zone slots are undefined and
\* the preset list is empty; GET /info is issued at construction and never
\* again and config never changes; each refresh changes only its own slot.
C8_Lifecycle ==
    /\ [](/\ (op = "__init__") =>
               /\ status = None /\ volume = None /\ zone_status = None
               /\ presets = <<>>
               /\ reqs = <<[method |-> "GET", path |-> "/info"]>>
          /\ (op # "__init__") => \A i \in 1..Len(reqs) : reqs[i].path # "/info")
    /\ [][/\ config' = config
          /\ (op' = "refresh_status") => UNCHANGED <<volume, zone_status, presets>>
          /\ (op' = "refresh_volume") => UNCHANGED <<status, zone_status, presets>>
          /\ (op' = "refresh_presets") => UNCHANGED <<status, volume, zone_status>>
          /\ (op' = "refresh_zone_status") => UNCHANGED <<status, volume, presets>>]_vars

C8_Witness ==
    /\ op = "refresh_volume"
    /\ outcome = "ok"
    /\ volume = Volume(resp)
    /\ status # None
    /\ zone_status # None
    /\ presets # <<>>

\* the integer of an optional source text
ExpectedInt(text) == IF text = None THEN None ELSE int(text)

\* C9: the numeric fields decode to the integer of the source text when the
\* source is present and to undefined when it is absent, and decoding does not
\* raise because a numeric source is absent: refresh_volume on a document
\* lacking actualvolume or targetvolume completes and stores the snapshot.
C9_NumericFields ==
    /\ (op = "refresh_status" /\ outcome = "ok") =>
          /\ status.duration =
                ExpectedInt(_get_dom_element_attribute(resp, "time", "total", None))
          /\ status.position = ExpectedInt(_get_dom_element_value(resp, "time", None))
    /\ (op = "refresh_volume") =>
          /\ outcome = "ok"
          /\ volume.actual =
                ExpectedInt(_get_dom_element_value(resp, "actualvolume", None))
          /\ volume.target =
                ExpectedInt(_get_dom_element_value(resp, "targetvolume", None))

\* C10: decoding does not raise because an optional part is missing: a
\* now_playing document without ContentItem, a preset without ContentItem and
\* a networkInfo without type are decoded, and the snapshot is stored.
C10_DecodingTotal ==
    /\ (op = "refresh_status" /\ _get_dom_element(resp, "ContentItem") = None) =>
          /\ outcome = "ok"
          /\ status # None
          /\ status.source = _get_dom_element_attribute(resp, "nowPlaying", "source", None)
    /\ (op = "refresh_presets") =>
          /\ outcome = "ok"
          /\ Len(presets) = Len(_get_dom_elements(resp, "preset"))
    /\ (op = "__init__") =>
          /\ outcome = "ok"
          /\ config # None

\* C11: with two callers in parallel on one facade, no other caller's write to
\* a slot happens between the press POST and the release POST of a key-press
\* method that refreshes that slot (e.g. no refresh_status assignment of the
\* status between the press and the release of a concurrent pause).
C11_NoWriteBetweenPressAndRelease ==
    [][\A a \in Callers : \A b \in Callers \ {a} :
          ~ /\ callers[a].pc = "release"
            /\ ParSlot(callers[a].op) = ParSlot(callers[b].op)
            /\ callers[b].pc = "assign"
            /\ callers'[b].pc = "idle"
            /\ outcome' = "ok"]_vars

\* the positions of the networks of type "SMSC" in a list of networks
SmscPositions(networks) == {i \in 1..Len(networks) : networks[i].type = Str("SMSC")}

\* the field of the first "SMSC" network, else of the first network, else None
ExpectedNetworkField(networks, field) ==
    IF SmscPositions(networks) # {}
    THEN networks[CHOOSE i \in SmscPositions(networks) :
                      \A j \in SmscPositions(networks) : i <= j][field]
    ELSE IF Len(networks) > 0 THEN networks[1][field]
    ELSE None

\* C12: for every sequence of Network children of a Config, in any order,
\* device_ip is the ip_address (and mac_address the mac_address) of the first
\* Network of type "SMSC" if there is one, else of the first Network in
\* document order, else undefined when there is no Network.
C12_PreferredNetwork ==
    /\ (op = "device_ip") => ret = ExpectedNetworkField(config.networks, "ip_address")
    /\ (op = "mac_address") => ret = ExpectedNetworkField(config.networks, "mac_address")

\* device_ip read on a Config whose first Network is not the "SMSC" one and
\* whose "SMSC" Network has another address
C12_Witness ==
    /\ op = "device_ip"
    /\ Len(config.networks) >= 2
    /\ config.networks[1].type # Str("SMSC")
    /\ SmscPositions(config.networks) # {}
    /\ ret # None
    /\ ret # config.networks[1].ip_address

====
